---- MODULE Spec2Model ----
(***************************************************************************)
(* Model of the Trakt -> Discord presence bridge.                          *)
(*                                                                         *)
(*   src/discord_ipc.py  class DiscordIPC: connect, _connect_pipe,         *)
(*                       _disconnect, _send_data, _receive_data,           *)
(*                       _handshake, update, clear, close                  *)
(*   src/main.py         connect_to_discord,                               *)
(*                       update_discord_presence_with_reconnect, main      *)
(*                                                                         *)
(* Two specifications share the variables and the DiscordIPC actions:      *)
(*   Spec         the process: main()'s initial connect, its monitoring    *)
(*                loop and its cleanup, against a peer that comes and goes *)
(*   SessionSpec  one DiscordIPC object whose public methods are called    *)
(*                in any order by an arbitrary caller                      *)
(* FairSpec is Spec with weak fairness on the steps of the process.        *)
(***************************************************************************)
EXTENDS Integers, Sequences, FiniteSets, TLC

VARIABLES
    pc,          \* position of the single thread of control
    ret,         \* who called DiscordIPC.connect: "main_init", "step", "api"
    sess,        \* the DiscordIPC object: connected, socket (0 = None), pipe
    fds,         \* descriptor table of the process: 1..MaxFd -> handle
    peer,        \* the desktop client's socket file: where and in what mode
    rpc,         \* rpc_container[0]: "None" or "obj" (the object sess)
    pipe_id,     \* loop variable of connect()
    path_ix,     \* position in possible_paths of _connect_pipe()
    cres,        \* outcome of the last connect(): "none", "true", "raise"
    sockMade,    \* some socket was created during the current connect()
    hsTried,     \* some path connected during the current connect()
    item,        \* watching_status of the current poll
    success,     \* outcome of the presence-update step of the current poll
    updRet,      \* how the last update()/clear()/close() ended
    sendRes,     \* what _send_data did in the last update()/clear()
    consecutive_failures,
    startedDisc, \* the current poll began without a connected session
    exc,         \* exception propagating out of the monitoring loop
    activity,    \* CURRENT_ACTIVITY_STATE
    clock,       \* int(time.time()) as read by the reconciler call that
                 \* ReconSpec looks at
    start_time,  \* start_time of the step: what _resolve_activity_start returned
    wiped,       \* the key and start that the last _reset_activity_state()
                 \* of ReconSpec overwrote
    call,        \* the function call that PureSpec looks at: its name, its
                 \* arguments and what it returned
    lock         \* the PID file, and where each process that was started
                 \* stands with it

vars == <<pc, ret, sess, fds, peer, rpc, pipe_id, path_ix, cres, sockMade, hsTried,
          item, success, updRet, sendRes, consecutive_failures, startedDisc, exc,
          activity, clock, start_time, wiped, call, lock>>

(***************************************************************************)
(* Constants of the program and bounds of the model                        *)
(***************************************************************************)
NumPipes == 10
NumPaths == 2
FailureLimit == 3
MaxLiveIdx == 1
MaxFd == 2

None == "None"

\* Channel indices at which the peer may put its socket file: the first
\* ones and the last one that connect() tries.
LiveIdx == (0..MaxLiveIdx) \cup {NumPipes - 1}

NoPeer == [idx |-> -1, path |-> 0, mode |-> "absent"]

\* "stale":  the file exists, connecting is refused
\* "reject": connecting works, the handshake is not acknowledged
\* "ok":     connecting works, the handshake is acknowledged
PeerStates ==
    {NoPeer} \cup [idx : LiveIdx, path : 1..NumPaths, mode : {"stale", "reject", "ok"}]

PathStatus(i, p) ==
    IF peer.idx = i /\ peer.path = p THEN peer.mode ELSE "absent"

PathExists(i, p) == PathStatus(i, p) # "absent"

ConnectAccepted(i, p) == PathStatus(i, p) \in {"reject", "ok"}

(***************************************************************************)
(* Descriptors                                                             *)
(***************************************************************************)
ClosedFd == [open |-> FALSE, idx |-> 0, path |-> 0, alive |-> FALSE, hs |-> 0, msg |-> FALSE]

OpenFds == {n \in 1..MaxFd : fds[n].open}

FreeFd(f) ==
    IF \E n \in 1..MaxFd : ~f[n].open
    THEN CHOOSE n \in 1..MaxFd : ~f[n].open /\ \A k \in 1..(n - 1) : f[k].open
    ELSE 0

CloseFd(f, n) == IF n \in 1..MaxFd THEN [f EXCEPT ![n] = ClosedFd] ELSE f

(***************************************************************************)
(* DiscordIPC                                                              *)
(***************************************************************************)
DiscordIPC_init == [connected |-> FALSE, socket |-> 0, pipe |-> 0]

AlreadyConnected_never(s) == FALSE

\* connect(): `if self.connected: return True`
AlreadyConnected(s) == s.connected

disconnect_stays_connected(s, f) ==
    [sess |-> [s EXCEPT !.socket = 0],
     fds  |-> IF s.socket # 0 THEN CloseFd(f, s.socket) ELSE f]

disconnect_leak(s, f) ==
    [sess |-> [s EXCEPT !.socket = 0, !.connected = FALSE], fds |-> f]

disconnect_keep_socket(s, f) ==
    [sess |-> [s EXCEPT !.connected = FALSE], fds |-> f]

\* _disconnect(): close the handle if one is held, forget it, connected = False
_disconnect(s, f) ==
    [sess |-> [s EXCEPT !.socket = 0, !.connected = FALSE],
     fds  |-> IF s.socket # 0 THEN CloseFd(f, s.socket) ELSE f]

connect_error_leak(s, f) == [sess |-> [s EXCEPT !.socket = 0], fds |-> f]

\* _connect_pipe(): the except branch of one candidate path
\*   if self.socket: self.socket.close(); self.socket = None
connect_error(s, f) ==
    IF s.socket # 0
    THEN [sess |-> [s EXCEPT !.socket = 0], fds |-> CloseFd(f, s.socket)]
    ELSE [sess |-> s, fds |-> f]

\* _send_data(): False without a socket, False when the write raises, else
\* the frame is written. op = 0 is HANDSHAKE, op = 1 is MESSAGE.
_send_data(s, f, op) ==
    IF s.socket = 0 THEN [ok |-> FALSE, fds |-> f]
    ELSE IF ~(f[s.socket].open /\ f[s.socket].alive) THEN [ok |-> FALSE, fds |-> f]
    ELSE [ok  |-> TRUE,
          fds |-> IF op = 0
                  THEN [f EXCEPT ![s.socket].hs = IF @ < 2 THEN @ + 1 ELSE @]
                  ELSE [f EXCEPT ![s.socket].msg = TRUE]]

\* What _receive_data() can return to _handshake(): None, or a document.
RespNone  == [null |-> TRUE,  keys |-> {}]
RespError == [null |-> FALSE, keys |-> {"code", "message"}]
RespReady == [null |-> FALSE, keys |-> {"cmd", "data", "evt", "nonce"}]

\* The responses the peer can give on descriptor n.
Responses(f, n) ==
    IF ~(f[n].open /\ f[n].alive) THEN {RespNone}
    ELSE IF PathStatus(f[n].idx, f[n].path) = "ok" THEN {RespReady}
    ELSE {RespNone, RespError}

handshake_any_response(sent, resp) == sent /\ ~resp.null

\* _handshake(): the send succeeded and
\*   `response is not None and 'data' in response`
_handshake(sent, resp) == sent /\ ~resp.null /\ "data" \in resp.keys

update_unguarded(s, f, payloadOk) ==
    IF s.socket = 0 THEN [ret |-> "false", sent |-> "fail", fds |-> f]
    ELSE IF ~payloadOk THEN [ret |-> "raise", sent |-> "none", fds |-> f]
    ELSE LET r == _send_data(s, f, 1)
         IN  [ret  |-> IF r.ok THEN "true" ELSE "false",
              sent |-> IF r.ok THEN "ok" ELSE "fail",
              fds  |-> r.fds]

\* update(): payloadOk is false when json.dumps raises on the payload.
update(s, f, payloadOk) ==
    IF ~s.connected THEN [ret |-> "false", sent |-> "none", fds |-> f]
    ELSE IF s.socket = 0 THEN [ret |-> "false", sent |-> "fail", fds |-> f]
    ELSE IF ~payloadOk THEN [ret |-> "raise", sent |-> "none", fds |-> f]
    ELSE LET r == _send_data(s, f, 1)
         IN  [ret  |-> IF r.ok THEN "true" ELSE "false",
              sent |-> IF r.ok THEN "ok" ELSE "fail",
              fds  |-> r.fds]

\* clear(): the same frame with activity None; its payload always serialises.
clear(s, f) == update(s, f, TRUE)

close_skipped(s, f, closeRaises) == [sess |-> s, fds |-> f, ret |-> "none"]

close_error_escapes == FALSE

\* _disconnect(): `except Exception: pass` around self.socket.close()
SwallowsCloseError == TRUE

\* close(): self._disconnect(), where socket.close() may raise (closeRaises).
\* The descriptor is released either way and `finally` forgets the handle.
\* ret is "none" (returned), "swallowed" (returned after catching the
\* error of socket.close()) or "raise".
close(s, f, closeRaises) ==
    LET d == _disconnect(s, f)
    IN  [sess |-> d.sess,
         fds  |-> d.fds,
         ret  |-> IF s.socket # 0 /\ closeRaises
                  THEN IF SwallowsCloseError THEN "swallowed" ELSE "raise"
                  ELSE "none"]

(***************************************************************************)
(* Watching items, as get_watching_status() hands them to the step         *)
(***************************************************************************)
\* An optional number is {} (None) or {n}.
\* A title is a string, or one of
\*   "<absent>"  the attribute does not exist
\*   "<null>"    the attribute is None
\*   "<object>"  a nested document, which _namespace turns into a
\*               SimpleNamespace that json.dumps rejects
\* An identifier is a string, "" when missing or None.
\* A raw timestamp is [form, v]:
\*   "none"  None or no such attribute
\*   "int"   a number, v itself
\*   "iso"   an ISO-8601 string denoting second v of the epoch
\*   "bad"   a string that does not parse
\*   "inf"   a number that is not finite (json.loads reads 1e999 as inf)
NoRaw == [form |-> "none", v |-> 0]

NoIds == [trakt |-> "", slug |-> "", imdb |-> ""]

NoItem ==
    [type |-> "none", ids |-> NoIds, showTitle |-> "<absent>", showRuntime |-> {},
     season |-> {}, number |-> {}, title |-> "<absent>", year |-> {},
     progress |-> {}, runtime |-> {},
     started_at |-> NoRaw, watched_at |-> NoRaw, last_watched_at |-> NoRaw]

\* media_type == 'movie': base.update(movie)
Movie(t) == [NoItem EXCEPT !.type = "movie", !.title = t]

\* media_type == 'episode': title, season, number, ids, episode, show, runtime
Episode(st, se, nu) ==
    [NoItem EXCEPT !.type = "episode", !.showTitle = st, !.season = se, !.number = nu,
                   !.title = "Ep"]

\* What the polls of the monitoring loop can see.
PollItems ==
    { NoItem,
      [Movie("M") EXCEPT !.ids.trakt = "m1", !.started_at = [form |-> "iso", v |-> 1]],
      [Movie("<object>") EXCEPT !.started_at = [form |-> "int", v |-> 0]],
      [Episode("X", {1}, {2}) EXCEPT !.watched_at = [form |-> "int", v |-> 1]],
      Episode("X", {}, {2}),
      Episode("<absent>", {1}, {2}) }

\* `if watching_item:`  (a SimpleNamespace is truthy, None is not)
Watching(it) == it.type # "none"

\* `hasattr(watching_item, 'show') and watching_item.show`: get_watching_status
\* gives every episode a show namespace, and only episodes.
HasShow(it) == it.type = "episode"

\* The exception the formatting of details/state raises, or "none":
\*   watching_item.show.title           AttributeError without a title
\*   f"S{season:02d}E{number:02d} ..."  TypeError on None
FormatError(it) ==
    IF ~HasShow(it) THEN "none"
    ELSE IF it.showTitle = "<absent>" THEN "AttributeError"
    ELSE IF it.season = {} \/ it.number = {} THEN "TypeError"
    ELSE "none"

\* The value passed as details=: the show's title, else the item's title,
\* else "".
Details(it) ==
    IF HasShow(it) THEN it.showTitle
    ELSE IF it.title # "<absent>" THEN it.title
    ELSE ""

\* json.dumps(data) in _send_data succeeds on the payload built for it.
PayloadOk(it) == Details(it) # "<object>"

(***************************************************************************)
(* The activity reconciler: CURRENT_ACTIVITY_STATE and its functions       *)
(***************************************************************************)
MaxNow == 1

\* The values int(time.time()) can have.
Times == 0..MaxNow

\* A key is a record standing for the formatted string:
\*   "none"     None
\*   "id"       f"{prefix}:{trakt_id}"
\*   "episode"  f"episode:{show_title}:{season}:{number}"
\*   "movie"    f"movie:{title}:{year}"
\*   "repr"     str(watching_item)
Key(kind, prefix, a, s, n, whole) ==
    [kind |-> kind, prefix |-> prefix, a |-> a, s |-> s, n |-> n, whole |-> whole]

NoKey == Key("none", "", "", {}, {}, NoItem)

\* getattr(obj, "title", None) as it prints: a missing title reads as None.
TitleValue(t) == IF t = "<absent>" THEN "<null>" ELSE t

\* `if title:`
Truthy(t) == t \notin {"<absent>", "<null>", ""}

first_id_slug_first(ids) ==
    IF ids.slug # "" THEN ids.slug
    ELSE IF ids.trakt # "" THEN ids.trakt
    ELSE ids.imdb

\* ids.trakt or ids.slug or ids.imdb
FirstId(ids) ==
    IF ids.trakt # "" THEN ids.trakt
    ELSE IF ids.slug # "" THEN ids.slug
    ELSE ids.imdb

_build_activity_key(it) ==
    IF ~Watching(it) THEN NoKey
    ELSE IF FirstId(it.ids) # ""
    THEN Key("id", IF HasShow(it) THEN "episode" ELSE "movie", FirstId(it.ids), {}, {}, NoItem)
    ELSE IF HasShow(it)
    THEN Key("episode", "episode", TitleValue(it.showTitle), it.season, it.number, NoItem)
    ELSE IF Truthy(it.title)
    THEN Key("movie", "movie", it.title, it.year, {}, NoItem)
    ELSE Key("repr", "", "", {}, {}, it)

\* _normalize_timestamp(): a number gives int(value), a string is parsed,
\* None and anything that does not parse give None.
_normalize_timestamp(raw) ==
    IF raw.form \in {"int", "iso"} THEN {raw.v} ELSE {}

\* _normalize_timestamp(): `return int(value)` raises OverflowError on a
\* float that is not finite.
NormalizeRaises(raw) == raw.form = "inf"

max_unclamped(x, y) == x

\* max(int(time.time()) - seconds_elapsed, 0)
Max(x, y) == IF x >= y THEN x ELSE y

\* The runtime _estimate_start_from_progress() uses: the item's, else its
\* show's.
ResolvedRuntime(it) ==
    IF it.runtime = {} /\ HasShow(it) THEN it.showRuntime ELSE it.runtime

\* The pairs <<runtime, progress>> used in this model whose double-precision
\* product runtime * 60 * (progress / 100.0) falls just short of the whole
\* number it stands for: 35 / 100.0 is 0.34999999999999997 and
\* 180 * 0.34999999999999997 is 62.99999999999999.
RoundsBelow == {<<3, 35>>}

\* seconds_elapsed = int(runtime * 60 * (progress / 100.0))
seconds_elapsed(r, q) ==
    IF <<r, q>> \in RoundsBelow /\ (r * 60 * q) % 100 = 0
    THEN ((r * 60 * q) \div 100) - 1
    ELSE (r * 60 * q) \div 100

\* _estimate_start_from_progress(): {} for None, else {[start, progress]}
_estimate_start_from_progress(it, now) ==
    IF it.progress = {} \/ \A q \in it.progress : q <= 0 THEN {}
    ELSE IF ResolvedRuntime(it) = {} \/ \A r \in ResolvedRuntime(it) : r <= 0 THEN {}
    ELSE { [start    |-> Max(now - seconds_elapsed(r, q), 0),
            progress |-> q] : q \in it.progress, r \in ResolvedRuntime(it) }

\* A raw source is (attr, value), or None as ("none", NoRaw).
NoSource == [attr |-> "none", val |-> NoRaw]

ActivityNull == [item_key |-> NoKey, start_timestamp |-> {}, raw_started_at |-> NoSource]

Source(attr, raw) ==
    [ts |-> _normalize_timestamp(raw), src |-> [attr |-> attr, val |-> raw], raised |-> FALSE]

SourceRaised == [ts |-> {}, src |-> NoSource, raised |-> TRUE]

\* for attr in ("started_at", "watched_at", "last_watched_at"): the first
\* one that normalises, unless normalising one of those before it raises
FirstTimestamp(it) ==
    IF NormalizeRaises(it.started_at) THEN SourceRaised
    ELSE IF _normalize_timestamp(it.started_at) # {}
    THEN Source("started_at", it.started_at)
    ELSE IF NormalizeRaises(it.watched_at) THEN SourceRaised
    ELSE IF _normalize_timestamp(it.watched_at) # {}
    THEN Source("watched_at", it.watched_at)
    ELSE IF NormalizeRaises(it.last_watched_at) THEN SourceRaised
    ELSE IF _normalize_timestamp(it.last_watched_at) # {}
    THEN Source("last_watched_at", it.last_watched_at)
    ELSE [ts |-> {}, src |-> NoSource, raised |-> FALSE]

fallback_none(start, now) == start

fallback_epoch(start, now) == IF start = {} THEN {0} ELSE start

\* `if start_timestamp is None: start_timestamp = int(time.time())`
Fallback(start, now) == IF start = {} THEN {now} ELSE start

reuse_needs_equal_source(raw, previous_raw) == raw = previous_raw

reuse_never(raw, previous_raw) == FALSE

\* `if raw_source is None or raw_source == previous_raw`
ReuseAllowed(raw, previous_raw) == raw = NoSource \/ raw = previous_raw

resolve_reuses_across_keys(it, key, st, now) ==
    IF st.start_timestamp # {}
    THEN [start |-> st.start_timestamp, state |-> [st EXCEPT !.item_key = key],
          raised |-> FALSE, branch |-> "reused"]
    ELSE [start  |-> {now},
          state  |-> [item_key |-> key, start_timestamp |-> {now}, raw_started_at |-> NoSource],
          raised |-> FALSE, branch |-> "fresh"]

resolve_without_persist(it, key, st, now) ==
    [start |-> {now}, state |-> st, raised |-> FALSE, branch |-> "fresh"]

resolve_current_time(it, key, st, now) ==
    [start  |-> {now},
     state  |-> [item_key |-> key, start_timestamp |-> {now}, raw_started_at |-> NoSource],
     raised |-> FALSE, branch |-> "fresh"]

\* _resolve_activity_start(): the start handed to update(), the new
\* CURRENT_ACTIVITY_STATE, and whether the call raised instead.  branch
\* names the return statement taken: "progress" (line 712), "reused" (722)
\* or "fresh" (733).
_resolve_activity_start(it, key, st, now) ==
    LET est == _estimate_start_from_progress(it, now)
        fst == FirstTimestamp(it)
        start == IF est # {} THEN {e.start : e \in est} ELSE fst.ts
        raw == IF est # {}
               THEN [attr |-> "progress",
                     val |-> [form |-> "float", v |-> CHOOSE q \in it.progress : TRUE]]
               ELSE fst.src
        previous_state_matches == st.item_key = key /\ st.start_timestamp # {}
        fresh == Fallback(start, now)
    IN  IF est = {} /\ fst.raised
        THEN [start |-> {}, state |-> st, raised |-> TRUE, branch |-> "raised"]
        ELSE IF raw.attr = "progress"
        THEN [start  |-> start,
              state  |-> [item_key |-> key, start_timestamp |-> start, raw_started_at |-> raw],
              raised |-> FALSE, branch |-> "progress"]
        ELSE IF previous_state_matches /\ ReuseAllowed(raw, st.raw_started_at)
        THEN [start |-> st.start_timestamp, state |-> st, raised |-> FALSE, branch |-> "reused"]
        ELSE [start  |-> fresh,
              state  |-> [item_key |-> key, start_timestamp |-> fresh, raw_started_at |-> raw],
              raised |-> FALSE, branch |-> "fresh"]

reset_keeps_state == [item_key       |-> Key("id", "movie", "m1", {}, {}, NoItem),
                      start_timestamp |-> {0},
                      raw_started_at  |-> NoSource]

\* _reset_activity_state()
_reset_activity_state == ActivityNull

(***************************************************************************)
(* Initial states                                                          *)
(***************************************************************************)
NoCall == [fn |-> "none"]

\* The PID file holds a pid, or does not exist (NoFile). Process p has pid p;
\* StalePid is the pid of a process of an earlier run that is gone.
\* at[p] is where process p stands: "absent" (never started), "start",
\* "read", "test", "write" inside acquire_single_instance(), "held" past
\* it, "refused" when it returned False, "done" after main() returned,
\* "killed" when main() was left by an exception.
NumProcs == 2

Procs == 1..NumProcs

NoFile == 0

StalePid == NumProcs + 1

\* main() of process 1 past acquire_single_instance(), nobody else started
MainHoldsLock ==
    [file |-> 1,
     at   |-> [p \in Procs |-> IF p = 1 THEN "held" ELSE "absent"],
     seen |-> [p \in Procs |-> 0]]

\* _is_process_running(pid): os.kill(pid, 0) finds the process
_is_process_running(l, pid) ==
    /\ pid > 0
    /\ pid \in Procs
    /\ l.at[pid] \notin {"absent", "refused", "done", "killed"}

\* release_single_instance(): if PID_FILE.exists(): PID_FILE.unlink()
release_single_instance(l) == [l EXCEPT !.file = NoFile]

InitCommon ==
    /\ ret = "none"
    /\ sess = DiscordIPC_init
    /\ fds = [n \in 1..MaxFd |-> ClosedFd]
    /\ peer \in PeerStates
    /\ rpc = None
    /\ pipe_id = 0
    /\ path_ix = 1
    /\ cres = "none"
    /\ sockMade = FALSE
    /\ hsTried = FALSE
    /\ item = NoItem
    /\ success = "none"
    /\ updRet = "none"
    /\ sendRes = "none"
    /\ consecutive_failures = 0
    /\ startedDisc = FALSE
    /\ exc = "none"
    /\ activity = ActivityNull
    /\ clock = 0
    /\ start_time = {}
    /\ wiped = [item_key |-> NoKey, start_timestamp |-> {}]
    /\ call = NoCall

Init == pc = "start" /\ InitCommon /\ lock = MainHoldsLock

SessionInit == pc = "idle" /\ InitCommon /\ lock = MainHoldsLock

(***************************************************************************)
(* The peer                                                                *)
(***************************************************************************)
\* The desktop client starts, stops, moves or changes its mind: every
\* connection it had accepted is dead from then on.
PeerChange ==
    \E p \in PeerStates :
        /\ p # peer
        /\ peer' = p
        /\ fds' = [n \in 1..MaxFd |-> IF fds[n].open THEN [fds[n] EXCEPT !.alive = FALSE] ELSE fds[n]]
        /\ UNCHANGED <<lock, call, pc, ret, sess, rpc, pipe_id, path_ix, cres, sockMade, hsTried, item,
                       activity, clock, start_time, wiped,
                       success, updRet, sendRes, consecutive_failures, startedDisc, exc>>

(***************************************************************************)
(* DiscordIPC.connect(), one step per candidate path                       *)
(***************************************************************************)
\* Where connect() goes when it is entered on session s.
connect_entry(s) == IF AlreadyConnected(s) THEN "connect_ret" ELSE "probe"

next_index_give_up(i) == <<NumPipes, 1>>

\* `for pipe_id in range(10):` the loop position after index i is done with.
NextIndex(i) == <<i + 1, 1>>

next_path_skips_candidates(i, p) == <<i + 1, 1>>

\* The loop position after candidate (i, p) failed to connect.
NextPath(i, p) == IF p < NumPaths THEN <<i, p + 1>> ELSE NextIndex(i)

\* for pipe_id in range(10) ... raise ConnectionError
Advance(pos) ==
    /\ pipe_id' = pos[1]
    /\ path_ix' = pos[2]
    /\ IF pos[1] >= NumPipes
       THEN pc' = "connect_ret" /\ cres' = "raise"
       ELSE pc' = "probe" /\ cres' = cres

\* _connect_pipe(): `if not os.path.exists(pipe_path): continue`, else
\* `self.socket = socket.socket(...)` (an OSError when no descriptor is free)
ProbePath ==
    /\ pc = "probe"
    /\ IF ~PathExists(pipe_id, path_ix)
       THEN /\ Advance(NextPath(pipe_id, path_ix))
            /\ UNCHANGED <<sess, fds, sockMade>>
       ELSE IF FreeFd(fds) = 0
       THEN /\ Advance(NextPath(pipe_id, path_ix))
            /\ sess' = connect_error(sess, fds).sess
            /\ fds' = connect_error(sess, fds).fds
            /\ UNCHANGED sockMade
       ELSE /\ sockMade' = TRUE
            /\ sess' = [sess EXCEPT !.socket = FreeFd(fds)]
            /\ fds' = [fds EXCEPT ![FreeFd(fds)] =
                         [open |-> TRUE, idx |-> pipe_id, path |-> path_ix,
                          alive |-> FALSE, hs |-> 0, msg |-> FALSE]]
            /\ pc' = "sock_connect"
            /\ UNCHANGED <<pipe_id, path_ix, cres>>
    /\ UNCHANGED <<lock, call, ret, peer, rpc, hsTried, item, activity, clock, start_time, wiped, success, updRet, sendRes,
                   consecutive_failures, startedDisc, exc>>

\* _connect_pipe(): `self.socket.connect(pipe_path); return True`, or the
\* except branch; then connect(): `self.pipe = pipe_id`
SockConnect ==
    /\ pc = "sock_connect"
    /\ IF ConnectAccepted(pipe_id, path_ix)
       THEN /\ fds' = [fds EXCEPT ![sess.socket].alive = TRUE]
            /\ sess' = [sess EXCEPT !.pipe = pipe_id]
            /\ hsTried' = TRUE
            /\ pc' = "handshake"
            /\ UNCHANGED <<pipe_id, path_ix, cres>>
       ELSE /\ sess' = connect_error(sess, fds).sess
            /\ fds' = connect_error(sess, fds).fds
            /\ Advance(NextPath(pipe_id, path_ix))
            /\ UNCHANGED hsTried
    /\ UNCHANGED <<lock, call, ret, peer, rpc, sockMade, item, activity, clock, start_time, wiped, success, updRet, sendRes,
                   consecutive_failures, startedDisc, exc>>

\* connect(): `if self._handshake(): self.connected = True; return True`
\*            `else: self._disconnect()` and on to the next index
Handshake ==
    /\ pc = "handshake"
    /\ LET snd == _send_data(sess, fds, 0)
       IN  \E resp \in Responses(snd.fds, sess.socket) :
             IF _handshake(snd.ok, resp)
             THEN /\ sess' = [sess EXCEPT !.connected = TRUE]
                  /\ fds' = snd.fds
                  /\ pc' = "connect_ret"
                  /\ cres' = "true"
                  /\ UNCHANGED <<pipe_id, path_ix>>
             ELSE /\ sess' = _disconnect(sess, snd.fds).sess
                  /\ fds' = _disconnect(sess, snd.fds).fds
                  /\ Advance(NextIndex(pipe_id))
    /\ UNCHANGED <<lock, call, ret, peer, rpc, sockMade, hsTried, item, activity, clock, start_time, wiped, success, updRet, sendRes,
                   consecutive_failures, startedDisc, exc>>

(***************************************************************************)
(* SessionSpec: the public methods of one DiscordIPC object                *)
(***************************************************************************)
ApiConnect ==
    /\ pc = "idle"
    /\ ret' = "api"
    /\ pc' = connect_entry(sess)
    /\ cres' = IF AlreadyConnected(sess) THEN "true" ELSE "none"
    /\ pipe_id' = IF AlreadyConnected(sess) THEN pipe_id ELSE 0
    /\ path_ix' = IF AlreadyConnected(sess) THEN path_ix ELSE 1
    /\ sockMade' = FALSE
    /\ hsTried' = FALSE
    /\ updRet' = "none"
    /\ sendRes' = "none"
    /\ UNCHANGED <<lock, call, sess, fds, peer, rpc, item, activity, clock, start_time, wiped, success, consecutive_failures,
                   startedDisc, exc>>

\* connect() returns True or raises ConnectionError to the caller.
ApiConnectReturn ==
    /\ pc = "connect_ret"
    /\ ret = "api"
    /\ pc' = "idle"
    /\ UNCHANGED <<lock, call, ret, sess, fds, peer, rpc, pipe_id, path_ix, cres, sockMade, hsTried, item, activity, clock, start_time, wiped,
                   success, updRet, sendRes, consecutive_failures, startedDisc, exc>>

ApiUpdate ==
    /\ pc = "idle"
    /\ \E payloadOk \in BOOLEAN :
         LET u == update(sess, fds, payloadOk)
         IN  /\ updRet' = u.ret
             /\ sendRes' = u.sent
             /\ fds' = u.fds
    /\ cres' = "none"
    /\ UNCHANGED <<lock, call, pc, ret, sess, peer, rpc, pipe_id, path_ix, sockMade, hsTried, item, activity, clock, start_time, wiped, success,
                   consecutive_failures, startedDisc, exc>>

ApiClear ==
    /\ pc = "idle"
    /\ LET u == clear(sess, fds)
       IN  /\ updRet' = u.ret
           /\ sendRes' = u.sent
           /\ fds' = u.fds
    /\ cres' = "none"
    /\ UNCHANGED <<lock, call, pc, ret, sess, peer, rpc, pipe_id, path_ix, sockMade, hsTried, item, activity, clock, start_time, wiped, success,
                   consecutive_failures, startedDisc, exc>>

\* close(): self._disconnect()
ApiClose ==
    /\ pc = "idle"
    /\ \E closeRaises \in BOOLEAN :
         LET c == close(sess, fds, closeRaises)
         IN  /\ sess' = c.sess
             /\ fds' = c.fds
             /\ updRet' = c.ret
    /\ cres' = "none"
    /\ sendRes' = "none"
    /\ UNCHANGED <<lock, call, pc, ret, peer, rpc, pipe_id, path_ix, sockMade, hsTried, item, activity, clock, start_time, wiped, success,
                   consecutive_failures, startedDisc, exc>>

SessionNext ==
    \/ ApiConnect
    \/ ApiConnectReturn
    \/ ApiUpdate
    \/ ApiClear
    \/ ApiClose
    \/ ProbePath
    \/ SockConnect
    \/ Handshake
    \/ PeerChange

SessionSpec == SessionInit /\ [][SessionNext]_vars

(***************************************************************************)
(* Spec: main(), connect_to_discord(),                                     *)
(* update_discord_presence_with_reconnect()                                *)
(***************************************************************************)
no_connection_ignored(c) == FALSE

\* `if not rpc_container[0]:`
NoConnection(c) == c = None

\* connect_to_discord(): rpc = DiscordIPC(DISCORD_CLIENT_ID); rpc.connect()
EnterConnect(who) ==
    /\ sess' = DiscordIPC_init
    /\ ret' = who
    /\ pc' = connect_entry(DiscordIPC_init)
    /\ pipe_id' = 0
    /\ path_ix' = 1
    /\ cres' = "none"
    /\ sockMade' = FALSE
    /\ hsTried' = FALSE

\* main(): rpc_client, connected = connect_to_discord()
MainConnect ==
    /\ pc = "start"
    /\ EnterConnect("main_init")
    /\ UNCHANGED <<lock, call, fds, peer, rpc, item, activity, clock, start_time, wiped, success, updRet, sendRes,
                   consecutive_failures, startedDisc, exc>>

\* connect_to_discord() returns (rpc, True), or (None, False) on the
\* exception; main(): rpc_container = [rpc_client]
MainConnectReturn ==
    /\ pc = "connect_ret"
    /\ ret = "main_init"
    /\ rpc' = IF cres = "true" THEN "obj" ELSE None
    /\ pc' = "loop"
    /\ UNCHANGED <<lock, call, ret, sess, fds, peer, pipe_id, path_ix, cres, sockMade, hsTried, item, activity, clock, start_time, wiped,
                   success, updRet, sendRes, consecutive_failures, startedDisc, exc>>

\* One turn of `while not shutdown_requested:` up to the entry of the step:
\* watching_status = get_watching_status(), then
\* update_discord_presence_with_reconnect() reconnects if it holds nothing.
Poll ==
    /\ pc = "loop"
    /\ \E it \in PollItems : item' = it
    /\ success' = "none"
    /\ updRet' = "none"
    /\ sendRes' = "none"
    /\ startedDisc' = (rpc = None \/ ~sess.connected)
    /\ IF NoConnection(rpc)
       THEN EnterConnect("step")
       ELSE /\ pc' = "body"
            /\ cres' = "none"
            /\ UNCHANGED <<ret, sess, pipe_id, path_ix, sockMade, hsTried>>
    /\ UNCHANGED <<lock, call, fds, peer, rpc, consecutive_failures, exc, activity, clock, start_time, wiped>>

\* rpc_container[0], connected = connect_to_discord()
\* if not connected: return False
StepConnectReturn ==
    /\ pc = "connect_ret"
    /\ ret = "step"
    /\ IF cres = "true"
       THEN rpc' = "obj" /\ pc' = "body" /\ success' = success
       ELSE rpc' = None /\ pc' = "step_ret" /\ success' = "false"
    /\ UNCHANGED <<lock, call, ret, sess, fds, peer, pipe_id, path_ix, cres, sockMade, hsTried, item, activity, clock, start_time, wiped,
                   updRet, sendRes, consecutive_failures, startedDisc, exc>>

\* What `rpc_container[0].update(...)` / `.clear()` does: a method call on
\* None raises AttributeError.
CallUpdate(c, s, f, it) ==
    IF c = None THEN [ret |-> "raise", sent |-> "none", fds |-> f]
    ELSE IF Watching(it) THEN update(s, f, PayloadOk(it))
    ELSE clear(s, f)

\* The value the step returns after the try block: `return True` when the
\* call did not raise (whatever it returned), `return False` in the except
\* branch.
StepResult(u) == IF u.ret = "raise" THEN "false" ELSE "true"

\* The exception that leaves the step before update() is reached, or
\* "none": _resolve_activity_start (line 773) and the formatting of
\* details/state (lines 783-790) are outside the try block.
StepError(it) ==
    IF FirstTimestamp(it).raised /\ _estimate_start_from_progress(it, 0) = {}
    THEN "OverflowError"
    ELSE FormatError(it)

\* The body of update_discord_presence_with_reconnect() after the reconnect.
\* With an item: the key, the start (which rewrites CURRENT_ACTIVITY_STATE),
\* the formatting, the update.  Without: _reset_activity_state(), clear().
StepBody ==
    /\ pc = "body"
    /\ \E now \in Times :
         LET r == _resolve_activity_start(item, _build_activity_key(item), activity, now)
         IN  IF Watching(item)
             THEN /\ activity' = r.state
                  /\ start_time' = r.start
             ELSE /\ activity' = _reset_activity_state
                  /\ start_time' = {}
    /\ IF Watching(item) /\ StepError(item) # "none"
       THEN \* the exception leaves the step and the while loop
            /\ exc' = StepError(item)
            /\ success' = "raise"
            /\ pc' = "finally"
            /\ UNCHANGED <<sess, fds, rpc, updRet, sendRes>>
       ELSE LET u == CallUpdate(rpc, sess, fds, item)
                d == _disconnect(sess, u.fds)
            IN  /\ updRet' = u.ret
                /\ sendRes' = u.sent
                /\ success' = StepResult(u)
                /\ pc' = "step_ret"
                /\ exc' = exc
                /\ IF u.ret = "raise"
                   THEN \* except: rpc_container[0].close(); rpc_container[0] = None
                        /\ rpc' = None
                        /\ sess' = IF rpc = None THEN sess ELSE d.sess
                        /\ fds' = IF rpc = None THEN u.fds ELSE d.fds
                   ELSE /\ fds' = u.fds
                        /\ UNCHANGED <<sess, rpc>>
    /\ UNCHANGED <<lock, call, ret, peer, pipe_id, path_ix, cres, sockMade, hsTried, item,
                   consecutive_failures, startedDisc, clock, wiped>>

\* main(): the bookkeeping after the step, and the sleep.
LoopTail ==
    /\ pc = "step_ret"
    /\ consecutive_failures' =
         IF success = "true" THEN 0
         ELSE IF consecutive_failures + 1 >= FailureLimit THEN 0
         ELSE consecutive_failures + 1
    /\ pc' = "loop"
    /\ UNCHANGED <<lock, call, ret, sess, fds, peer, rpc, pipe_id, path_ix, cres, sockMade, hsTried, item, activity, clock, start_time, wiped,
                   success, updRet, sendRes, startedDisc, exc>>

\* SIGINT/SIGTERM while the loop sleeps: signal_handler raises
\* KeyboardInterrupt, `except KeyboardInterrupt` catches it.
Signal ==
    /\ pc = "loop"
    /\ exc' = "KeyboardInterrupt"
    /\ pc' = "finally"
    /\ UNCHANGED <<lock, call, ret, sess, fds, peer, rpc, pipe_id, path_ix, cres, sockMade, hsTried, item, activity, clock, start_time, wiped,
                   success, updRet, sendRes, consecutive_failures, startedDisc>>

\* SIGINT/SIGTERM between acquire_single_instance() and the `try:` of
\* main(), here during the first connect_to_discord(): signal_handler raises
\* KeyboardInterrupt, which `except Exception` in connect_to_discord() and
\* in connect() lets through, and main() is left without its finally.
SignalBeforeLoop ==
    /\ pc = "start" \/ (ret = "main_init" /\ pc \in {"probe", "sock_connect", "handshake",
                                                     "connect_ret"})
    /\ exc' = "KeyboardInterrupt"
    /\ pc' = "killed"
    /\ lock' = [lock EXCEPT !.at[1] = "killed"]
    /\ UNCHANGED <<call, ret, sess, fds, peer, rpc, pipe_id, path_ix, cres, sockMade, hsTried,
                   item, activity, clock, start_time, wiped, success, updRet, sendRes,
                   consecutive_failures, startedDisc>>

\* main(): finally: if rpc_container[0]: clear(), _reset_activity_state(),
\* then close() in the inner finally; if has_lock: release_single_instance().
\* A signal that arrives during clear() raises KeyboardInterrupt there:
\* `except Exception` lets it through, the inner finally still closes, and
\* main() is left before release_single_instance().
Finally ==
    /\ pc = "finally"
    /\ IF rpc = None
       THEN /\ lock' = [release_single_instance(lock) EXCEPT !.at[1] = "done"]
            /\ UNCHANGED <<sess, fds, updRet, sendRes, activity, exc>>
       ELSE \E interrupted \in BOOLEAN, closeRaises \in BOOLEAN :
              LET u == clear(sess, fds)
                  c == close(sess, IF interrupted THEN fds ELSE u.fds, closeRaises)
              IN  /\ updRet' = IF interrupted THEN "raise" ELSE u.ret
                  /\ sendRes' = IF interrupted THEN "none" ELSE u.sent
                  /\ activity' = IF interrupted THEN activity ELSE _reset_activity_state
                  /\ sess' = c.sess
                  /\ fds' = c.fds
                  /\ exc' = IF interrupted THEN "KeyboardInterrupt" ELSE exc
                  /\ lock' = IF interrupted
                             THEN [lock EXCEPT !.at[1] = "killed"]
                             ELSE [release_single_instance(lock) EXCEPT !.at[1] = "done"]
    /\ pc' = "exited"
    /\ UNCHANGED <<call, ret, peer, rpc, pipe_id, path_ix, cres, sockMade, hsTried, item, success,
                   consecutive_failures, startedDisc, clock, start_time, wiped>>

\* The steps of the process itself.
ProcessNext ==
    \/ MainConnect
    \/ MainConnectReturn
    \/ Poll
    \/ StepConnectReturn
    \/ StepBody
    \/ LoopTail
    \/ Finally
    \/ ProbePath
    \/ SockConnect
    \/ Handshake

Next ==
    \/ MainConnect
    \/ MainConnectReturn
    \/ Poll
    \/ StepConnectReturn
    \/ StepBody
    \/ LoopTail
    \/ Signal
    \/ SignalBeforeLoop
    \/ Finally
    \/ ProbePath
    \/ SockConnect
    \/ Handshake
    \/ PeerChange

Spec == Init /\ [][Next]_vars

\* The thread of control keeps running: no step of the process waits for
\* anything but a bounded sleep or a blocking call that returns.
FairSpec == Init /\ [][Next]_vars /\ WF_vars(ProcessNext)

(***************************************************************************)
(* ReconSpec: the activity reconciler called poll after poll               *)
(***************************************************************************)
PollInterval == 15
FirstPoll == 75
MaxPolls == 0

\* The clock readings of the polls: the epoch, and polls PollInterval apart.
ReconTimes == {0} \cup {FirstPoll + PollInterval * k : k \in 0..MaxPolls}

\* progress and runtime as the watching document may carry them
ProgressShapes ==
    { [progress |-> {},   runtime |-> {}],
      [progress |-> {35}, runtime |-> {3}],
      [progress |-> {2},  runtime |-> {1}],
      [progress |-> {35}, runtime |-> {}],
      [progress |-> {0},  runtime |-> {3}] }

RawTs(form, v) == [form |-> form, v |-> v]

\* started_at, watched_at, last_watched_at as the document may carry them
TimestampShapes ==
    { <<NoRaw, NoRaw, NoRaw>>,
      <<RawTs("iso", 15), RawTs("int", 30), NoRaw>>,
      <<RawTs("bad", 0), RawTs("int", 30), NoRaw>>,
      <<NoRaw, NoRaw, RawTs("int", 45)>>,
      <<RawTs("inf", 0), RawTs("int", 30), NoRaw>> }

\* An episode takes its runtime from its show (line 626-627).
Shaped(base, p, t) ==
    [base EXCEPT !.progress = p.progress,
                 !.runtime = IF HasShow(base) THEN {} ELSE p.runtime,
                 !.showRuntime = IF HasShow(base) THEN p.runtime ELSE {},
                 !.started_at = t[1],
                 !.watched_at = t[2],
                 !.last_watched_at = t[3]]

ReconItems ==
    { Shaped(base, p, t) :
        base \in {[Movie("M") EXCEPT !.ids.trakt = "m1"], Episode("X", {1}, {2})},
        p \in ProgressShapes,
        t \in TimestampShapes }

ReconInit == pc = "recon" /\ peer = NoPeer /\ InitCommon /\ lock = MainHoldsLock

Resolved == {"resolved_progress", "resolved_reused", "resolved_fresh"}

\* item_key = _build_activity_key(watching_item)
\* start_time = _resolve_activity_start(watching_item, item_key)
ReconResolve ==
    /\ pc \in {"recon", "reset"} \cup Resolved
    /\ \E it \in ReconItems, now \in ReconTimes :
         LET r == _resolve_activity_start(it, _build_activity_key(it), activity, now)
         IN  /\ item' = it
             /\ clock' = now
             /\ activity' = r.state
             /\ start_time' = r.start
             /\ pc' = IF r.raised THEN "resolve_raised" ELSE "resolved_" \o r.branch
    /\ UNCHANGED <<lock, call, ret, sess, fds, peer, rpc, pipe_id, path_ix, cres, sockMade, hsTried,
                   success, updRet, sendRes, consecutive_failures, startedDisc, exc, wiped>>

\* _reset_activity_state()
ReconReset ==
    /\ pc \in {"recon", "reset"} \cup Resolved
    /\ wiped' = [item_key |-> activity.item_key, start_timestamp |-> activity.start_timestamp]
    /\ activity' = _reset_activity_state
    /\ pc' = "reset"
    /\ UNCHANGED <<lock, call, ret, sess, fds, peer, rpc, pipe_id, path_ix, cres, sockMade, hsTried, item,
                   success, updRet, sendRes, consecutive_failures, startedDisc, exc, clock,
                   start_time>>

ReconNext == ReconResolve \/ ReconReset

ReconSpec == ReconInit /\ [][ReconNext]_vars

(***************************************************************************)
(* Properties                                                              *)
(***************************************************************************)
\* The session is Ready on a connection its peer has dropped.
Stale ==
    /\ rpc = "obj"
    /\ sess.connected
    /\ sess.socket # 0
    /\ ~fds[sess.socket].alive

\* A SET_ACTIVITY frame carrying an activity was written to the channel.
Delivered == sendRes = "ok" /\ Watching(item)

\* The desktop client listens at index 0 and acknowledges handshakes.
PeerHome == [idx |-> 0, path |-> 1, mode |-> "ok"]

\* C1: whenever the send performed by update() or clear() fails, the session
\* is Disconnected and holds no channel once the call has returned.
C1_SendFailureDisconnects ==
    sendRes = "fail" => (~sess.connected /\ sess.socket = 0 /\ OpenFds = {})

C3_Recovery ==
    (<>[](peer = PeerHome) /\ []<>(pc = "body" /\ Watching(item) /\ PayloadOk(item)))
        => [](Stale => <>Delivered)

\* C4: the step reports success only if the SET_ACTIVITY frame of the poll
\* was written, and reports failure whenever update()/clear() returned False.
C4_SuccessMeansWritten ==
    pc = "step_ret" =>
        /\ success = "true" => sendRes = "ok"
        /\ updRet = "false" => success = "false"

C6_StepNeverRaises == success # "raise"

\* C7: connect() called on a Ready session returns True at once and leaves
\* the session, every descriptor and every frame count as they were.
C7_ConnectWhenReadyNoop ==
    [][(pc = "idle" /\ pc' # "idle" /\ sess.connected) =>
          (pc' = "connect_ret" /\ cres' = "true" /\ sess' = sess /\ fds' = fds)]_vars

C7_Witness ==
    /\ pc = "connect_ret"
    /\ ret = "api"
    /\ cres = "true"
    /\ ~hsTried
    /\ sess.connected

C9_ExhaustionLeavesNothingOpen ==
    (pc = "connect_ret" /\ cres = "raise" /\ ~hsTried) =>
        (OpenFds = {} /\ sess.socket = 0)

C9_Witness ==
    pc = "connect_ret" /\ cres = "raise" /\ ~hsTried /\ sockMade

C11_NotReadyReturnsFalse ==
    [][((ApiUpdate \/ ApiClear) /\ ~sess.connected) =>
          (updRet' = "false" /\ sendRes' = "none" /\ sess' = sess /\ fds' = fds)]_vars

C11_Witness ==
    /\ pc = "idle"
    /\ ~sess.connected
    /\ updRet = "false"
    /\ sendRes = "none"
    /\ hsTried

\* C12: close() never raises, even when closing the handle fails; it leaves
\* the session Disconnected without a handle and the handle it held closed;
\* on a session that is already closed it changes nothing.
C12_CloseIdempotent ==
    [][ApiClose =>
          /\ updRet' # "raise"
          /\ ~sess'.connected
          /\ sess'.socket = 0
          /\ (sess.socket # 0 => ~fds'[sess.socket].open)
          /\ ((~sess.connected /\ sess.socket = 0) => (sess' = sess /\ fds' = fds))]_vars

C12_Witness ==
    /\ pc = "idle"
    /\ updRet = "swallowed"
    /\ ~sess.connected
    /\ sess.socket = 0
    /\ OpenFds = {}

UsableProgress(it) ==
    /\ \E q \in it.progress : q > 0
    /\ \E r \in ResolvedRuntime(it) : r > 0

\* The first of started_at, watched_at, last_watched_at that holds a number
\* or a parseable string, as (attr, value); NoSource if there is none.
ExpectedSource(it) ==
    IF it.started_at.form \in {"int", "iso"}
    THEN [attr |-> "started_at", val |-> it.started_at]
    ELSE IF it.watched_at.form \in {"int", "iso"}
    THEN [attr |-> "watched_at", val |-> it.watched_at]
    ELSE IF it.last_watched_at.form \in {"int", "iso"}
    THEN [attr |-> "last_watched_at", val |-> it.last_watched_at]
    ELSE NoSource

\* C14 as claimed: two consecutive polls of one item with all fields
\* unchanged, at different clock times, resolve to the same start.
C14_UnchangedItemSameStart ==
    [][(ReconResolve /\ pc \in Resolved /\ item' = item /\ clock' # clock) =>
          (pc' \in Resolved /\ start_time' = start_time)]_vars

\* C14 as amended: two consecutive polls of one item with all fields
\* unchanged resolve to the same start when the item has no usable progress
\* estimate; when it has one, each poll's start is its own clock reading
\* minus the elapsed seconds (not below 0), so it moves with the clock.
C14_UnchangedItemSameStartUnlessProgress ==
    [][(ReconResolve /\ pc \in Resolved /\ item' = item /\ clock' # clock) =>
          /\ pc' \in Resolved
          /\ ~UsableProgress(item) => start_time' = start_time
          /\ UsableProgress(item) =>
               \E q \in item.progress, r \in ResolvedRuntime(item) :
                   /\ start_time  = {Max(clock  - seconds_elapsed(r, q), 0)}
                   /\ start_time' = {Max(clock' - seconds_elapsed(r, q), 0)}]_vars

C14_Witness ==
    /\ pc = "resolved_reused"
    /\ ~UsableProgress(item)
    /\ ExpectedSource(item) = NoSource
    /\ start_time = {0}
    /\ clock = FirstPoll

\* C15: two consecutive resolve calls for the same key, neither with a
\* usable progress estimate, with the raw timestamp fields unchanged and one
\* of them holding a timestamp, return the same start whatever the clock
\* reads.
C15_JitterSuppression ==
    [][(/\ ReconResolve
        /\ pc \in Resolved
        /\ _build_activity_key(item') = _build_activity_key(item)
        /\ ~UsableProgress(item)
        /\ ~UsableProgress(item')
        /\ item'.started_at = item.started_at
        /\ item'.watched_at = item.watched_at
        /\ item'.last_watched_at = item.last_watched_at
        /\ ExpectedSource(item) # NoSource) =>
          (pc' \in Resolved /\ start_time' = start_time)]_vars

C15_Witness ==
    /\ pc = "resolved_reused"
    /\ ~UsableProgress(item)
    /\ ExpectedSource(item).attr = "watched_at"
    /\ activity.raw_started_at = ExpectedSource(item)
    /\ start_time = {30}
    /\ clock = FirstPoll

\* C16 as claimed: with a usable progress estimate the start is
\* max(now - floor(runtime*60*progress/100), 0), whatever the raw timestamp
\* fields and the previous state are, and the state becomes that key, that
\* start and the raw source (progress, value).
C16_ProgressPriorityExact ==
    [][(ReconResolve /\ UsableProgress(item')) =>
          \E q \in item'.progress, r \in ResolvedRuntime(item') :
              LET d == clock' - ((r * 60 * q) \div 100)
                  start == IF d > 0 THEN d ELSE 0
              IN  /\ start_time' = {start}
                  /\ activity' = [item_key        |-> _build_activity_key(item'),
                                  start_timestamp |-> {start},
                                  raw_started_at  |->
                                      [attr |-> "progress",
                                       val  |-> [form |-> "float", v |-> q]]]]_vars

\* C16 as amended: the elapsed seconds are the double-precision product
\* truncated, which is floor(runtime*60*progress/100) or one less.
C16_ProgressPriorityTruncated ==
    [][(ReconResolve /\ UsableProgress(item')) =>
          \E q \in item'.progress, r \in ResolvedRuntime(item') :
            \E e \in {(r * 60 * q) \div 100, ((r * 60 * q) \div 100) - 1} :
              LET start == IF clock' - e > 0 THEN clock' - e ELSE 0
              IN  /\ pc' = "resolved_progress"
                  /\ start_time' = {start}
                  /\ activity' = [item_key        |-> _build_activity_key(item'),
                                  start_timestamp |-> {start},
                                  raw_started_at  |->
                                      [attr |-> "progress",
                                       val  |-> [form |-> "float", v |-> q]]]]_vars

C16_Witness ==
    /\ pc = "resolved_progress"
    /\ item.progress = {35}
    /\ ResolvedRuntime(item) = {3}
    /\ item.started_at.form = "inf"
    /\ clock = FirstPoll
    /\ start_time = {clock - 62}

\* C17: the resolve that follows a reset never takes the reuse branch: its
\* start comes from the item's progress, else from its first raw timestamp,
\* else from the clock.
C17_NoReuseAfterReset ==
    [][(ReconResolve /\ pc = "reset" /\ pc' # "resolve_raised") =>
          /\ pc' # "resolved_reused"
          /\ start_time' =
               IF UsableProgress(item')
               THEN {e.start : e \in _estimate_start_from_progress(item', clock')}
               ELSE IF ExpectedSource(item') # NoSource
               THEN {ExpectedSource(item').val.v}
               ELSE {clock'}]_vars

C17_Witness ==
    /\ pc = "resolved_fresh"
    /\ wiped.item_key = _build_activity_key(item)
    /\ wiped.start_timestamp = {0}
    /\ ExpectedSource(item) = NoSource
    /\ start_time = {FirstPoll}
    /\ clock = FirstPoll

\* C18: at the end of the presence-update step of a poll that found nothing
\* playing, CURRENT_ACTIVITY_STATE is all None, whether or not the desktop
\* client could be reached; with a connected session a clear frame was
\* handed to the channel.
C18_IdleResetsState ==
    (pc = "step_ret" /\ ~Watching(item)) =>
        /\ activity = ActivityNull
        /\ (rpc = "obj" /\ sess.connected) => sendRes # "none"

\* C19 as claimed: when neither the progress estimate nor a raw timestamp
\* field yields a start, the resolve returns the current time.
C19_FallbackIsNow ==
    [][(ReconResolve /\ ~UsableProgress(item') /\ ExpectedSource(item') = NoSource
            /\ pc' # "resolve_raised") =>
          start_time' = {clock'}]_vars

\* C19 as amended: when neither yields a start, the resolve returns the
\* start of the stored state if that state is for the same key (and leaves
\* the state alone), and the current time otherwise.
C19_FallbackIsNowUnlessReused ==
    [][(ReconResolve /\ ~UsableProgress(item') /\ ExpectedSource(item') = NoSource
            /\ pc' # "resolve_raised") =>
          IF activity.item_key = _build_activity_key(item') /\ activity.start_timestamp # {}
          THEN start_time' = activity.start_timestamp /\ activity' = activity
          ELSE /\ start_time' = {clock'}
               /\ activity' = [item_key        |-> _build_activity_key(item'),
                               start_timestamp |-> {clock'},
                               raw_started_at  |-> NoSource]]_vars

C19_Witness ==
    /\ pc = "resolved_fresh"
    /\ ~UsableProgress(item)
    /\ ExpectedSource(item) = NoSource
    /\ clock = FirstPoll
    /\ start_time = {FirstPoll}
    /\ wiped.start_timestamp = {}

\* C20: without a usable progress estimate the source is the first of
\* started_at, watched_at, last_watched_at that normalises, and no value of
\* a field makes the resolve raise.
C20_FieldOrderNoError ==
    (pc \in Resolved \cup {"resolve_raised"} /\ ~UsableProgress(item)) =>
        /\ pc # "resolve_raised"
        /\ pc = "resolved_fresh" => activity.raw_started_at = ExpectedSource(item)

(***************************************************************************)
(* PureSpec: one call of one function of the program on inputs drawn from  *)
(* bounded sets. `call` records the function, its arguments and its        *)
(* result.                                                                 *)
(***************************************************************************)
PureInit == pc = "pure" /\ peer = NoPeer /\ InitCommon /\ lock = MainHoldsLock

PureRest ==
    /\ pc' = "returned"
    /\ UNCHANGED <<lock, ret, sess, fds, peer, rpc, pipe_id, path_ix, cres, sockMade, hsTried,
                   item, success, updRet, sendRes, consecutive_failures, startedDisc, exc,
                   activity, clock, start_time, wiped>>

MaxSecs == 2

\* The numbers _normalize_timestamp() may be handed: a count of seconds
\* since the epoch, or the same instant counted in milliseconds.
NumericRaw(unit, secs) ==
    [form |-> "int", v |-> IF unit = "ms" THEN secs * 1000 ELSE secs]

\* _normalize_timestamp(value) on a number or a string
CallNormalize ==
    /\ pc = "pure"
    /\ \E unit \in {"s", "ms", "iso", "bad"}, secs \in 1..MaxSecs :
         LET raw == IF unit \in {"s", "ms"} THEN NumericRaw(unit, secs)
                    ELSE [form |-> unit, v |-> secs]
         IN  call' = [fn |-> "_normalize_timestamp", unit |-> unit, secs |-> secs,
                      raw |-> raw, res |-> _normalize_timestamp(raw)]
    /\ PureRest

\* The identifier sets and the items _build_activity_key() is tried on.
KeyItems ==
    {NoItem} \cup
    { [base EXCEPT !.ids = i, !.year = y] :
        base \in {Movie("T"), Movie(""), Movie("<absent>"),
                  Episode("X", {1}, {2}), Episode("<absent>", {}, {2})},
        i \in [trakt : {"", "t1"}, slug : {"", "sl"}, imdb : {"", "tt1"}],
        y \in {{}, {1999}} }

\* _build_activity_key(watching_item)
CallBuildKey ==
    /\ pc = "pure"
    /\ \E it \in KeyItems :
         call' = [fn |-> "_build_activity_key", item |-> it, res |-> _build_activity_key(it)]
    /\ PureRest

(***************************************************************************)
(* The activity object update() builds. A dict is a function from its keys; *)
(* None is "<null>" for a string and the empty set for a number or a list. *)
(***************************************************************************)
MaxPartyLen == 3
MaxButtons == 3

\* d[k] = v when the guard holds
Put(d, guard, k, v) == IF guard THEN d @@ (k :> v) ELSE d

IsNone(x) == x = "<null>"

name_skips_state(details, state) ==
    IF details \notin {"<null>", ""} THEN details ELSE "Discord IPC"

\* details or state or 'Discord IPC'
Name(details, state) ==
    IF details \notin {"<null>", ""} THEN details
    ELSE IF state \notin {"<null>", ""} THEN state
    ELSE "Discord IPC"

activity_base_standard(a) ==
    [type |-> a.activity_type, application_id |-> "client_id",
     name |-> Name(a.details, a.state), details |-> a.details, state |-> a.state]

\* if activity_type == 3: ... else: ...
ActivityBase(a) ==
    IF a.activity_type = 3
    THEN [type |-> a.activity_type, application_id |-> "client_id",
          details |-> a.details, state |-> a.state]
    ELSE Put(Put([type |-> a.activity_type, application_id |-> "client_id",
                  name |-> Name(a.details, a.state)],
                 ~IsNone(a.details), "details", a.details),
             ~IsNone(a.state), "state", a.state)

TheOne(S) == CHOOSE x \in S : TRUE

timestamps_with_null_end(act, a) ==
    Put(act, a.start # {} \/ a.end # {}, "timestamps",
        [start |-> IF a.start # {} THEN TheOne(a.start) ELSE 0,
         end   |-> IF a.end # {} THEN TheOne(a.end) ELSE 0])

WithTimestamps(act, a) ==
    Put(act, a.start # {} \/ a.end # {}, "timestamps",
        Put(Put(<<>>, a.start # {}, "start", TheOne(a.start)),
            a.end # {}, "end", TheOne(a.end)))

WithAssets(act, a) ==
    Put(act, ~IsNone(a.large_image) \/ ~IsNone(a.small_image), "assets",
        Put(Put(Put(Put(<<>>,
            ~IsNone(a.large_image), "large_image", a.large_image),
            ~IsNone(a.large_text), "large_text", a.large_text),
            ~IsNone(a.small_image), "small_image", a.small_image),
            ~IsNone(a.small_text), "small_text", a.small_text))

WithParty(act, a) ==
    Put(act, ~IsNone(a.party_id) \/ a.party_size # {}, "party",
        Put(Put(<<>>, ~IsNone(a.party_id), "id", a.party_id),
            a.party_size # {} /\ (\A sz \in a.party_size : Len(sz) >= 2), "size",
            SubSeq(TheOne(a.party_size), 1, 2)))

WithSecrets(act, a) ==
    Put(act, ~IsNone(a.join) \/ ~IsNone(a.spectate) \/ ~IsNone(a.match), "secrets",
        Put(Put(Put(<<>>,
            ~IsNone(a.join), "join", a.join),
            ~IsNone(a.spectate), "spectate", a.spectate),
            ~IsNone(a.match), "match", a.match))

buttons_untruncated(act, a) == Put(act, a.buttons # {}, "buttons", TheOne(a.buttons))

\* buttons[:2]
WithButtons(act, a) ==
    Put(act, a.buttons # {}, "buttons",
        LET b == TheOne(a.buttons) IN SubSeq(b, 1, IF Len(b) < 2 THEN Len(b) ELSE 2))

WithInstance(act, a) == Put(act, a.instance # {}, "instance", TheOne(a.instance))

\* The value of `activity` when update() hands `data` to _send_data().
update_activity(a) ==
    WithInstance(WithButtons(WithSecrets(WithParty(WithAssets(WithTimestamps(
        ActivityBase(a), a), a), a), a), a), a)

\* PLAYING and WATCHING
ActivityTypes == {0, 3}

PartySizes == {{}} \cup { {[i \in 1..n |-> i]} : n \in 0..MaxPartyLen }

\* The arguments update() is tried on: every combination of type, details
\* and state with each group of optional arguments all None or all given,
\* and, for each type, every combination of the optional arguments of the
\* four groups.
GroupArgs ==
    [start : {{}, {5}}, end : {{}, {9}},
     large_image : {"<null>", "li"}, large_text : {"<null>", "lt"},
     small_image : {"<null>", "si"}, small_text : {"<null>", "st"},
     party_id : {"<null>", "p"}, party_size : PartySizes,
     join : {"<null>", "j"}, spectate : {"<null>", "sp"}, match : {"<null>", "m"}]

AllOrNothing(g) ==
    /\ (g.start = {}) = (g.end = {})
    /\ \A f \in {"large_text", "small_image", "small_text"} :
         IsNone(g[f]) = IsNone(g.large_image)
    /\ g.party_size \in {{}, {<<1, 2>>}}
    /\ IsNone(g.party_id) = (g.party_size = {})
    /\ \A f \in {"spectate", "match"} : IsNone(g[f]) = IsNone(g.join)

Args(t, d, st, g, b) ==
    [activity_type |-> t, details |-> d, state |-> st, buttons |-> b, instance |-> {TRUE}]
        @@ g

UpdateArgs ==
    { Args(t, d, st, g, b) :
        t \in ActivityTypes, d \in {"<null>", "", "D"}, st \in {"<null>", "", "S"},
        g \in {x \in GroupArgs : AllOrNothing(x)}, b \in {{}} \cup { {[i \in 1..n |-> i]} : n \in 0..MaxButtons } }
    \cup
    { Args(t, "D", "<null>", g, {}) : t \in ActivityTypes, g \in GroupArgs }

\* update(...) up to the call of _send_data(1, data)
CallUpdateActivity ==
    /\ pc = "pure"
    /\ \E a \in UpdateArgs :
         call' = [fn |-> "update", args |-> a, res |-> update_activity(a)]
    /\ PureRest

(***************************************************************************)
(* Frames. A text is a sequence of characters, a byte string a sequence of *)
(* numbers 0..255. The characters of a JSON string are "a" (U+0061),       *)
(* "E9" (U+00E9, two bytes in UTF-8) and "1F600" (U+1F600, four bytes).    *)
(***************************************************************************)
MaxStrLen == 2

StrChars == {"a", "E9", "1F600"}

Strings == UNION { [1..n -> StrChars] : n \in 0..MaxStrLen }

\* JSON values: a number, a string, the empty object, an object with one
\* member whose value is a string.
J(kind, n, k, x) == [kind |-> kind, num |-> n, key |-> k, str |-> x]

JsonValues ==
    {J("num", 1, <<>>, <<>>), J("num", 12, <<>>, <<>>), J("empty", 0, <<>>, <<>>)}
        \cup {J("str", 0, <<>>, x) : x \in Strings}
        \cup {J("obj", 0, <<"a">>, x) : x \in Strings}

DigitChars == <<"0", "1", "2", "3", "4", "5", "6", "7", "8", "9">>

RECURSIVE Digits(_)
Digits(n) ==
    IF n < 10 THEN <<DigitChars[n + 1]>>
    ELSE Digits(n \div 10) \o <<DigitChars[(n % 10) + 1]>>

\* json.dumps with ensure_ascii: a character outside ASCII is written as
\* \uXXXX, one above U+FFFF as a surrogate pair.
Escape(c) ==
    IF c = "E9" THEN <<"\\", "u", "0", "0", "e", "9">>
    ELSE IF c = "1F600"
    THEN <<"\\", "u", "d", "8", "3", "d", "\\", "u", "d", "e", "0", "0">>
    ELSE <<c>>

RECURSIVE EscapeAll(_)
EscapeAll(x) == IF x = <<>> THEN <<>> ELSE Escape(Head(x)) \o EscapeAll(Tail(x))

Quoted(x) == <<"\"">> \o EscapeAll(x) \o <<"\"">>

\* json.dumps(data)
json_dumps(v) ==
    IF v.kind = "num" THEN Digits(v.num)
    ELSE IF v.kind = "str" THEN Quoted(v.str)
    ELSE IF v.kind = "empty" THEN <<"{", "}">>
    ELSE <<"{">> \o Quoted(v.key) \o <<":", " ">> \o Quoted(v.str) \o <<"}">>

AsciiTable ==
    { <<" ", 32>>, <<"\"", 34>>, <<"0", 48>>, <<"1", 49>>, <<"2", 50>>, <<"3", 51>>,
      <<"4", 52>>, <<"5", 53>>, <<"6", 54>>, <<"7", 55>>, <<"8", 56>>, <<"9", 57>>,
      <<":", 58>>, <<"\\", 92>>, <<"a", 97>>, <<"d", 100>>, <<"e", 101>>, <<"u", 117>>,
      <<"{", 123>>, <<"}", 125>> }

Ord(c) == (CHOOSE p \in AsciiTable : p[1] = c)[2]

Chr(b) == (CHOOSE p \in AsciiTable : p[2] = b)[1]

\* .encode('utf-8') of the text json.dumps returned, which is ASCII
utf8_encode(text) == [i \in 1..Len(text) |-> Ord(text[i])]

\* payload.decode('utf-8')
utf8_decode(bytes) == [i \in 1..Len(bytes) |-> Chr(bytes[i])]

\* One unsigned 32-bit number, least significant byte first.
LE4(n) ==
    <<n % 256, (n \div 256) % 256, (n \div 65536) % 256, (n \div 16777216) % 256>>

UnLE4(b) == b[1] + 256 * b[2] + 65536 * b[3] + 16777216 * b[4]

header_big_endian(op_code, length) ==
    <<0, 0, (op_code \div 256) % 256, op_code % 256,
      0, 0, (length \div 256) % 256, length % 256>>

\* struct.pack('<II', op_code, len(payload))
Header(op_code, length) == LE4(op_code) \o LE4(length)

\* struct.unpack('<II', header)
Unpack(header) ==
    [op_code |-> UnLE4(SubSeq(header, 1, 4)), length |-> UnLE4(SubSeq(header, 5, 8))]

frame_counts_characters(op_code, data) ==
    Header(op_code, Len(data.key) + Len(data.str)) \o utf8_encode(json_dumps(data))

\* header + payload as _send_data() hands them to sendall()
Frame(op_code, data) ==
    LET payload == utf8_encode(json_dumps(data))
    IN  Header(op_code, Len(payload)) \o payload

\* What json.loads gives: the value, or not ok for the JSONDecodeError.
Loaded(ok, v) == [ok |-> ok, val |-> v]

HexAt(t, i) == t[i] \o t[i + 1] \o t[i + 2] \o t[i + 3]

IsEscapeAt(t, i) == Len(t) >= i + 5 /\ t[i] = "\\" /\ t[i + 1] = "u"

\* The characters between the quotes of a JSON string: [ok, str]
RECURSIVE Unescape(_)
Unescape(t) ==
    IF t = <<>> THEN [ok |-> TRUE, str |-> <<>>]
    ELSE LET Cons(c, rest) ==
                 LET r == Unescape(rest)
                 IN  [ok |-> r.ok, str |-> IF r.ok THEN <<c>> \o r.str ELSE <<>>]
             From(i) == SubSeq(t, i, Len(t))
         IN  IF t[1] = "\\"
             THEN IF ~IsEscapeAt(t, 1) THEN [ok |-> FALSE, str |-> <<>>]
                  ELSE IF HexAt(t, 3) = "00e9" THEN Cons("E9", From(7))
                  ELSE IF /\ HexAt(t, 3) = "d83d"
                          /\ IsEscapeAt(t, 7)
                          /\ HexAt(t, 9) = "de00"
                  THEN Cons("1F600", From(13))
                  ELSE [ok |-> FALSE, str |-> <<>>]
             ELSE IF t[1] \in {"a"} THEN Cons(t[1], From(2))
             ELSE [ok |-> FALSE, str |-> <<>>]

\* A JSON string, quotes included: [ok, str]
ParseString(t) ==
    IF Len(t) >= 2 /\ t[1] = "\"" /\ t[Len(t)] = "\""
    THEN Unescape(SubSeq(t, 2, Len(t) - 1))
    ELSE [ok |-> FALSE, str |-> <<>>]

IsDigit(c) == \E i \in 1..10 : DigitChars[i] = c

DigitValue(c) == (CHOOSE i \in 1..10 : DigitChars[i] = c) - 1

RECURSIVE NumberValue(_)
NumberValue(t) ==
    IF t = <<>> THEN 0
    ELSE 10 * NumberValue(SubSeq(t, 1, Len(t) - 1)) + DigitValue(t[Len(t)])

\* json.loads(text)
json_loads(t) ==
    LET fail == Loaded(FALSE, J("empty", 0, <<>>, <<>>))
    IN  IF t = <<>> THEN fail
        ELSE IF IsDigit(t[1])
        THEN IF (\A i \in 1..Len(t) : IsDigit(t[i])) /\ (Len(t) = 1 \/ t[1] # "0")
             THEN Loaded(TRUE, J("num", NumberValue(t), <<>>, <<>>))
             ELSE fail
        ELSE IF t[1] = "\""
        THEN LET r == ParseString(t)
             IN  IF r.ok THEN Loaded(TRUE, J("str", 0, <<>>, r.str)) ELSE fail
        ELSE IF t = <<"{", "}">> THEN Loaded(TRUE, J("empty", 0, <<>>, <<>>))
        ELSE IF t[1] = "{" /\ t[Len(t)] = "}" /\ (\E i \in 2..(Len(t) - 1) : t[i] = ":")
        THEN LET inner == SubSeq(t, 2, Len(t) - 1)
                 colon == CHOOSE i \in 1..Len(inner) :
                            inner[i] = ":" /\ \A j \in 1..(i - 1) : inner[j] # ":"
                 after == IF colon < Len(inner) /\ inner[colon + 1] = " "
                          THEN colon + 2 ELSE colon + 1
                 k == ParseString(SubSeq(inner, 1, colon - 1))
                 x == ParseString(SubSeq(inner, after, Len(inner)))
             IN  IF k.ok /\ x.ok THEN Loaded(TRUE, J("obj", 0, k.str, x.str)) ELSE fail
        ELSE fail

\* _receive_data() on a socket whose recv(8) returns `header` and whose
\* recv(length) returns `payload`: the value returned ({} for None) and the
\* op code it unpacked.
_receive_data(header, payload) ==
    IF Len(header) < 8 THEN [res |-> {}, op_code |-> {}]
    ELSE LET r == json_loads(utf8_decode(payload))
         IN  [res |-> IF r.ok THEN {r.val} ELSE {}, op_code |-> {Unpack(header).op_code}]

\* handshake, frame, and one op code that does not fit in a byte
OpCodes == {0, 1, 258}

\* _send_data(op_code, data) on a socket that takes the bytes
CallSend ==
    /\ pc = "pure"
    /\ \E op \in OpCodes, data \in JsonValues :
         call' = [fn |-> "_send_data", op_code |-> op, data |-> data,
                  wire |-> Frame(op, data)]
    /\ pc' = "sent"
    /\ UNCHANGED <<lock, ret, sess, fds, peer, rpc, pipe_id, path_ix, cres, sockMade, hsTried,
                   item, success, updRet, sendRes, consecutive_failures, startedDisc, exc,
                   activity, clock, start_time, wiped>>

\* _receive_data() at the other end of the channel: recv(8) returns the
\* first h bytes that were written, recv(length) at most m of the bytes that
\* follow.
CallReceive ==
    /\ pc = "sent"
    /\ \E h \in 0..8, m \in 0..(Len(call.wire) - 8) :
         LET header == SubSeq(call.wire, 1, h)
             length == IF h = 8 THEN Unpack(header).length ELSE 0
             payload == SubSeq(call.wire, 9, 8 + IF m <= length THEN m ELSE length)
             r == _receive_data(header, payload)
         IN  /\ h < 8 => m = 0
             /\ call' = [fn |-> "_receive_data", op_code |-> call.op_code,
                         data |-> call.data, wire |-> call.wire,
                         header |-> header, payload |-> payload,
                         res |-> r.res, unpacked |-> r.op_code]
    /\ pc' = "returned"
    /\ UNCHANGED <<lock, ret, sess, fds, peer, rpc, pipe_id, path_ix, cres, sockMade, hsTried,
                   item, success, updRet, sendRes, consecutive_failures, startedDisc, exc,
                   activity, clock, start_time, wiped>>

PureNext ==
    \/ CallNormalize
    \/ CallBuildKey
    \/ CallUpdateActivity
    \/ CallSend
    \/ CallReceive

PureSpec == PureInit /\ [][PureNext]_vars

(***************************************************************************)
(* LockSpec: the processes that are started together, each running         *)
(* acquire_single_instance() and, when it got the lock, leaving again      *)
(***************************************************************************)
LockInit ==
    /\ pc = "lock"
    /\ peer = NoPeer
    /\ InitCommon
    /\ lock \in { [file |-> f, at |-> [p \in Procs |-> "start"], seen |-> [p \in Procs |-> 0]] :
                    f \in {NoFile, StalePid} }

LockStep(l) ==
    /\ lock' = l
    /\ UNCHANGED <<pc, call, ret, sess, fds, peer, rpc, pipe_id, path_ix, cres, sockMade,
                   hsTried, item, success, updRet, sendRes, consecutive_failures, startedDisc,
                   exc, activity, clock, start_time, wiped>>

\* if PID_FILE.exists():
LockCheck(p) ==
    /\ lock.at[p] = "start"
    /\ LockStep([lock EXCEPT !.at[p] = IF lock.file # NoFile THEN "read" ELSE "write"])

\* existing_pid = int(PID_FILE.read_text().strip() or 0); a file that is
\* gone by now raises, and the except branch returns False
LockRead(p) ==
    /\ lock.at[p] = "read"
    /\ LockStep(IF lock.file = NoFile
                THEN [lock EXCEPT !.at[p] = "refused"]
                ELSE [lock EXCEPT !.at[p] = "test", !.seen[p] = lock.file])

\* if _is_process_running(existing_pid) and existing_pid != os.getpid():
\*     return False
LockTest(p) ==
    /\ lock.at[p] = "test"
    /\ LockStep([lock EXCEPT !.at[p] =
                    IF _is_process_running(lock, lock.seen[p]) /\ lock.seen[p] # p
                    THEN "refused" ELSE "write"])

\* PID_FILE.write_text(str(os.getpid())); return True
LockWrite(p) ==
    /\ lock.at[p] = "write"
    /\ LockStep([lock EXCEPT !.at[p] = "held", !.file = p])

\* main() of a process that holds the lock returns through its finally
LockExit(p) ==
    /\ lock.at[p] = "held"
    /\ LockStep([release_single_instance(lock) EXCEPT !.at[p] = "done"])

\* main() of a process that holds the lock is left without its finally, or
\* the process is killed: the PID file stays
LockKill(p) ==
    /\ lock.at[p] = "held"
    /\ LockStep([lock EXCEPT !.at[p] = "killed"])

LockNext ==
    \E p \in Procs :
        \/ LockCheck(p)
        \/ LockRead(p)
        \/ LockTest(p)
        \/ LockWrite(p)
        \/ LockExit(p)
        \/ LockKill(p)

LockSpec == LockInit /\ [][LockNext]_vars

(***************************************************************************)
(* Properties of the reconciler state, of the pure functions and of the    *)
(* frames and the activity object                                          *)
(***************************************************************************)
\* C21 as claimed: after every resolve, CURRENT_ACTIVITY_STATE holds the
\* key of the call, the start the call returned, and the source the call
\* found for the item (None if it found none).
C21_StatePersisted ==
    [][(ReconResolve /\ pc' # "resolve_raised") =>
          /\ activity'.item_key = _build_activity_key(item')
          /\ activity'.start_timestamp = start_time'
          /\ activity'.raw_started_at =
               IF UsableProgress(item')
               THEN [attr |-> "progress",
                     val  |-> [form |-> "float", v |-> CHOOSE q \in item'.progress : TRUE]]
               ELSE ExpectedSource(item')]_vars

\* C21 as amended: the same, except that a call that returns the stored
\* start (same key; its own source None or equal to the stored one) leaves
\* the state as it was, so the stored source may be that of an earlier call
\* while this call found none.
C21_StatePersistedUnlessReused ==
    [][(ReconResolve /\ pc' # "resolve_raised") =>
          /\ activity'.item_key = _build_activity_key(item')
          /\ activity'.start_timestamp = start_time'
          /\ IF pc' = "resolved_reused"
             THEN /\ activity' = activity
                  /\ ExpectedSource(item') \in {NoSource, activity.raw_started_at}
             ELSE activity'.raw_started_at =
                    IF UsableProgress(item')
                    THEN [attr |-> "progress",
                          val  |-> [form |-> "float",
                                    v |-> CHOOSE q \in item'.progress : TRUE]]
                    ELSE ExpectedSource(item')]_vars

C21_Witness ==
    /\ pc = "resolved_reused"
    /\ ExpectedSource(item) = NoSource
    /\ activity.raw_started_at.attr = "watched_at"
    /\ activity.item_key = _build_activity_key(item)
    /\ start_time = {30}

\* C22 as claimed: _normalize_timestamp returns Unix seconds for every
\* accepted number: a count of milliseconds comes back as the seconds of the
\* same instant, a count of seconds comes back unchanged.
C22_NumbersBecomeSeconds ==
    (pc = "returned" /\ call.fn = "_normalize_timestamp" /\ call.unit \in {"s", "ms"})
        => call.res = {call.secs}

\* C23: the key of no item is None; otherwise the first non-empty of the
\* trakt id, the slug and the imdb id, prefixed "episode" for an item with a
\* show and "movie" for one without; with no identifier an item with a show
\* gets episode:<show title>:<season>:<number>, an item with a title gets
\* movie:<title>:<year>, and any other item its string form.
C23_BuildKey ==
    (pc = "returned" /\ call.fn = "_build_activity_key") =>
        LET it == call.item
            k  == call.res
            pre == IF it.type = "episode" THEN "episode" ELSE "movie"
            ById(v) == k = [kind |-> "id", prefix |-> pre, a |-> v, s |-> {}, n |-> {},
                            whole |-> NoItem]
        IN  IF it.type = "none" THEN k = NoKey
            ELSE IF it.ids.trakt # "" THEN ById(it.ids.trakt)
            ELSE IF it.ids.slug # "" THEN ById(it.ids.slug)
            ELSE IF it.ids.imdb # "" THEN ById(it.ids.imdb)
            ELSE IF it.type = "episode"
            THEN k = [kind |-> "episode", prefix |-> "episode",
                      a |-> IF it.showTitle = "<absent>" THEN "<null>" ELSE it.showTitle,
                      s |-> it.season, n |-> it.number, whole |-> NoItem]
            ELSE IF it.title \notin {"<absent>", "<null>", ""}
            THEN k = [kind |-> "movie", prefix |-> "movie", a |-> it.title,
                      s |-> it.year, n |-> {}, whole |-> NoItem]
            ELSE k = [kind |-> "repr", prefix |-> "", a |-> "", s |-> {}, n |-> {},
                      whole |-> it]

C23_Witness ==
    /\ pc = "returned"
    /\ call.fn = "_build_activity_key"
    /\ call.item.type = "episode"
    /\ call.item.ids = [trakt |-> "t1", slug |-> "sl", imdb |-> "tt1"]
    /\ call.res.prefix = "episode"
    /\ call.res.a = "t1"

\* C27: a Watching activity (type 3) has no name key and has both the
\* details and the state key, whatever the other arguments are.
C27_WatchingHasDetailsAndStateNoName ==
    (pc = "returned" /\ call.fn = "update" /\ call.args.activity_type = 3) =>
        /\ "name" \notin DOMAIN call.res
        /\ {"details", "state"} \subseteq DOMAIN call.res
        /\ call.res["details"] = call.args.details
        /\ call.res["state"] = call.args.state

C27_Witness ==
    /\ pc = "returned"
    /\ call.fn = "update"
    /\ call.args.activity_type = 3
    /\ call.args.details = ""
    /\ call.args.state = ""
    /\ DOMAIN call.res = {"type", "application_id", "details", "state", "timestamps",
                          "assets", "party", "secrets", "buttons", "instance"}

\* C28: for a type other than Watching the name is details when details is
\* a non-empty string, else state when state is a non-empty string, else the
\* placeholder; the details key is there exactly when details is not None
\* and the state key exactly when state is not None.
C28_StandardNameDetailsState ==
    (pc = "returned" /\ call.fn = "update" /\ call.args.activity_type # 3) =>
        LET a == call.args
            usable(x) == x # "<null>" /\ x # ""
        IN  /\ "name" \in DOMAIN call.res
            /\ call.res["name"] = IF usable(a.details) THEN a.details
                                  ELSE IF usable(a.state) THEN a.state
                                  ELSE "Discord IPC"
            /\ ("details" \in DOMAIN call.res) = (a.details # "<null>")
            /\ ("state" \in DOMAIN call.res) = (a.state # "<null>")
            /\ a.details # "<null>" => call.res["details"] = a.details
            /\ a.state # "<null>" => call.res["state"] = a.state

C28_Witness ==
    /\ pc = "returned"
    /\ call.fn = "update"
    /\ call.args.activity_type = 0
    /\ call.args.details = ""
    /\ call.args.state = "S"
    /\ call.res["name"] = "S"
    /\ call.res["details"] = ""

\* C29 as claimed: a group of the activity object (timestamps, assets,
\* party, secrets) that is present has at least one key, for every input of
\* update, a party_size with fewer than 2 entries and no party_id included.
C29_NoEmptyGroup ==
    (pc = "returned" /\ call.fn = "update") =>
        \A g \in {"timestamps", "assets", "party", "secrets"} :
            g \in DOMAIN call.res => DOMAIN call.res[g] # {}

\* C30 as claimed: a group is present exactly when at least one of the
\* arguments that belong to it is not None.
C30_GroupPresentIffAnyField ==
    (pc = "returned" /\ call.fn = "update") =>
        LET a == call.args
            present(g) == g \in DOMAIN call.res
        IN  /\ present("timestamps") = (a.start # {} \/ a.end # {})
            /\ present("assets") = (\E f \in {"large_image", "large_text",
                                             "small_image", "small_text"} : a[f] # "<null>")
            /\ present("party") = (a.party_id # "<null>" \/ a.party_size # {})
            /\ present("secrets") = (\E f \in {"join", "spectate", "match"} : a[f] # "<null>")

\* C24 as claimed: _receive_data returns a value only when recv gave all 8
\* bytes of the header and all `length` bytes of the payload; with fewer
\* bytes of either, or a payload that does not parse, it returns None.
C24_ValueOnlyFromCompleteFrame ==
    (pc = "returned" /\ call.fn = "_receive_data") =>
        (call.res # {} =>
            /\ Len(call.header) = 8
            /\ Len(call.payload) = Len(call.wire) - 8)

\* C25: what _send_data writes is 8 bytes of header, the op code and the
\* length least significant byte first, followed by the payload, and the
\* length is the number of bytes that follow the header, also when the
\* payload holds characters that take several bytes in UTF-8.
C25_HeaderDeclaresByteLength ==
    (pc = "sent" /\ call.fn = "_send_data") =>
        LET w == call.wire
        IN  /\ Len(w) >= 8
            /\ \A i \in 1..Len(w) : w[i] \in 0..255
            /\ w[1] + 256 * w[2] + 65536 * w[3] + 16777216 * w[4] = call.op_code
            /\ w[5] + 256 * w[6] + 65536 * w[7] + 16777216 * w[8] = Len(w) - 8
            /\ SubSeq(w, 9, Len(w)) = utf8_encode(json_dumps(call.data))

C25_Witness ==
    /\ pc = "sent"
    /\ call.fn = "_send_data"
    /\ call.op_code = 258
    /\ call.data = J("obj", 0, <<"a">>, <<"E9", "1F600">>)
    /\ SubSeq(call.wire, 1, 8) = <<2, 1, 0, 0, 27, 0, 0, 0>>

C31_GroupKeysOnlyNonNull ==
    (pc = "returned" /\ call.fn = "update") =>
        LET a == call.args
            act == call.res
            has(g) == g \in DOMAIN act
        IN  /\ has("timestamps") =>
                /\ \A k \in DOMAIN act["timestamps"] :
                     /\ k \in {"start", "end"}
                     /\ a[k] # {}
                     /\ a[k] = {act["timestamps"][k]}
                /\ (a.start # {} /\ a.end = {}) => DOMAIN act["timestamps"] = {"start"}
            /\ has("assets") =>
                \A k \in DOMAIN act["assets"] :
                     /\ k \in {"large_image", "large_text", "small_image", "small_text"}
                     /\ a[k] # "<null>"
                     /\ act["assets"][k] = a[k]
            /\ has("party") =>
                /\ "id" \in DOMAIN act["party"] =>
                     a.party_id # "<null>" /\ act["party"]["id"] = a.party_id
                /\ "size" \in DOMAIN act["party"] =>
                     /\ a.party_size # {}
                     /\ \A sz \in a.party_size : act["party"]["size"] = <<sz[1], sz[2]>>
                /\ DOMAIN act["party"] \subseteq {"id", "size"}
            /\ has("secrets") =>
                \A k \in DOMAIN act["secrets"] :
                     /\ k \in {"join", "spectate", "match"}
                     /\ a[k] # "<null>"
                     /\ act["secrets"][k] = a[k]

C31_Witness ==
    /\ pc = "returned"
    /\ call.fn = "update"
    /\ call.args.start = {5}
    /\ call.args.end = {}
    /\ call.args.large_image = "li"
    /\ call.args.large_text = "<null>"
    /\ call.args.join = "<null>"
    /\ call.args.match = "m"
    /\ call.args.party_id = "<null>"
    /\ call.args.party_size = {<<1, 2, 3>>}
    /\ DOMAIN call.res["timestamps"] = {"start"}
    /\ "large_text" \notin DOMAIN call.res["assets"]
    /\ DOMAIN call.res["party"] = {"size"}
    /\ "join" \notin DOMAIN call.res["secrets"]

\* C32: the buttons of the activity object are the first two of the
\* buttons passed to update, in their order, or all of them when fewer than
\* two were passed.
C32_ButtonsFirstTwo ==
    (pc = "returned" /\ call.fn = "update" /\ call.args.buttons # {}) =>
        \A b \in call.args.buttons :
            LET sent == call.res["buttons"]
            IN  /\ Len(sent) <= 2
                /\ Len(sent) = IF Len(b) <= 2 THEN Len(b) ELSE 2
                /\ \A i \in 1..Len(sent) : sent[i] = b[i]

C32_Witness ==
    /\ pc = "returned"
    /\ call.fn = "update"
    /\ call.args.buttons = {<<1, 2, 3>>}
    /\ call.res["buttons"] = <<1, 2>>

\* C34: connect() starts at index 0 with the first candidate path; a
\* candidate that is missing or refuses the connection sends it to the next
\* candidate of the index, and after the last one to the first candidate of
\* the next index, without raising before index 9 is done with; a refused
\* handshake sends it to the next index; when it returns True the session's
\* pipe is the index it stands at, the first one where a candidate connected
\* and acknowledged the handshake.
C34_DiscoveryOrder ==
    [][/\ (ApiConnect /\ ~sess.connected) => (pipe_id' = 0 /\ path_ix' = 1)
       /\ (pc \in {"probe", "sock_connect", "handshake"} /\ ret = "api"
           /\ <<pc, pipe_id, path_ix>> # <<pc', pipe_id', path_ix'>>) =>
            \/ /\ pc = "probe" /\ pc' = "sock_connect"
               /\ <<pipe_id', path_ix'>> = <<pipe_id, path_ix>>
            \/ /\ pc = "sock_connect" /\ pc' = "handshake"
               /\ <<pipe_id', path_ix'>> = <<pipe_id, path_ix>>
               /\ sess'.pipe = pipe_id
            \/ /\ pc = "handshake" /\ pc' = "connect_ret" /\ cres' = "true"
               /\ <<pipe_id', path_ix'>> = <<pipe_id, path_ix>>
               /\ sess'.connected
               /\ sess'.pipe = pipe_id
               /\ fds'[sess'.socket].idx = pipe_id
               /\ fds'[sess'.socket].path = path_ix
            \/ /\ pc \in {"probe", "sock_connect"}
               /\ ~sess'.connected
               /\ <<pipe_id', path_ix'>> =
                    IF path_ix < NumPaths THEN <<pipe_id, path_ix + 1>>
                    ELSE <<pipe_id + 1, 1>>
               /\ IF pipe_id' < NumPipes THEN pc' = "probe" /\ cres' # "raise"
                  ELSE pc' = "connect_ret" /\ cres' = "raise"
            \/ /\ pc = "handshake"
               /\ ~sess'.connected
               /\ <<pipe_id', path_ix'>> = <<pipe_id + 1, 1>>
               /\ IF pipe_id' < NumPipes THEN pc' = "probe" /\ cres' # "raise"
                  ELSE pc' = "connect_ret" /\ cres' = "raise"]_vars

C34_Witness ==
    /\ pc = "connect_ret"
    /\ ret = "api"
    /\ cres = "true"
    /\ hsTried
    /\ sess.connected
    /\ sess.pipe = NumPipes - 1
    /\ pipe_id = NumPipes - 1
    /\ path_ix = NumPaths

\* C38: a connected session holds a handle, open, on which the handshake
\* frame was written; connected turns true only in the step of connect()
\* that got the handshake acknowledged, and the handle is never dropped
\* while connected stays true.
C38_ConnectedHoldsHandshakenHandle ==
    /\ [](sess.connected =>
            /\ sess.socket \in 1..MaxFd
            /\ fds[sess.socket].open
            /\ fds[sess.socket].hs = 1)
    /\ [][/\ (~sess.connected /\ sess'.connected) =>
               /\ pc = "handshake"
               /\ pc' = "connect_ret"
               /\ cres' = "true"
               /\ sess.socket # 0
               /\ sess'.socket = sess.socket
               /\ fds[sess.socket].alive
               /\ PathStatus(fds[sess.socket].idx, fds[sess.socket].path) = "ok"
          /\ (sess.connected /\ sess'.socket # sess.socket) => ~sess'.connected]_vars

C38_Witness ==
    /\ pc = "idle"
    /\ sess.connected
    /\ sess.socket # 0
    /\ fds[sess.socket].open
    /\ ~fds[sess.socket].alive
    /\ updRet = "false"
    /\ sendRes = "fail"

\* C35: a resolve for an item whose key differs from the stored item_key
\* does not take the reuse return: the start is the progress estimate, else
\* the first timestamp of the new item, else the clock, and the stored
\* item_key becomes the new key.
C35_NoReuseAcrossKeys ==
    [][(/\ ReconResolve
        /\ pc' # "resolve_raised"
        /\ activity.item_key # _build_activity_key(item')) =>
          /\ pc' \in {"resolved_progress", "resolved_fresh"}
          /\ activity'.item_key = _build_activity_key(item')
          /\ activity'.start_timestamp = start_time'
          /\ start_time' =
               IF UsableProgress(item')
               THEN {e.start : e \in _estimate_start_from_progress(item', clock')}
               ELSE IF ExpectedSource(item') # NoSource
               THEN {ExpectedSource(item').val.v}
               ELSE {clock'}]_vars

C35_Witness ==
    /\ pc = "resolved_fresh"
    /\ item.type = "episode"
    /\ ~UsableProgress(item)
    /\ ExpectedSource(item) = NoSource
    /\ clock = FirstPoll
    /\ start_time = {FirstPoll}
    /\ activity.item_key = _build_activity_key(item)
    /\ activity.item_key.prefix = "episode"

\* C36: a resolve for the stored key of an item without usable progress
\* and without a timestamp that parses returns the stored start, and so
\* does every following resolve of that kind: the start does not move from
\* poll to poll.
C36_StartKeptWithoutSource ==
    [][(/\ ReconResolve
        /\ pc' # "resolve_raised"
        /\ ~UsableProgress(item')
        /\ ExpectedSource(item') = NoSource
        /\ activity.item_key = _build_activity_key(item')
        /\ activity.start_timestamp # {}) =>
          /\ pc' = "resolved_reused"
          /\ start_time' = activity.start_timestamp
          /\ activity'.start_timestamp = activity.start_timestamp
          /\ (/\ pc \in Resolved
              /\ _build_activity_key(item) = _build_activity_key(item')) =>
                start_time' = start_time]_vars

C36_Witness ==
    /\ pc = "resolved_reused"
    /\ ~UsableProgress(item)
    /\ ExpectedSource(item) = NoSource
    /\ activity.raw_started_at = NoSource
    /\ activity.item_key = _build_activity_key(item)
    /\ clock = FirstPoll
    /\ start_time = {0}

\* C37: item_key is None exactly when start_timestamp is None; after a
\* resolve that returned both are set, and after a reset item_key,
\* start_timestamp and raw_started_at are all None.
C37_KeyAndStartTogether ==
    /\ (activity.item_key = NoKey) = (activity.start_timestamp = {})
    /\ pc \in Resolved =>
         /\ activity.item_key # NoKey
         /\ activity.start_timestamp # {}
         /\ start_time # {}
    /\ pc = "reset" =>
         /\ activity.item_key = NoKey
         /\ activity.start_timestamp = {}
         /\ activity.raw_started_at = NoSource

C37_Witness ==
    /\ pc = "reset"
    /\ wiped.item_key # NoKey
    /\ wiped.start_timestamp = {FirstPoll}
    /\ activity.item_key = NoKey
    /\ activity.start_timestamp = {}

\* C33 as claimed: of the processes that are started together and run
\* acquire_single_instance(), at most one is past it with True at any time.
C33_AtMostOneHolder ==
    Cardinality({p \in Procs : lock.at[p] = "held"}) <= 1

\* C39 as claimed: once main() has written its PID file, the file is gone
\* when main() has terminated, whichever way it terminated.
C39_PidFileRemovedOnExit ==
    pc \in {"exited", "killed"} => lock.file = NoFile

\* C40: when main() reaches its finally with a session object, clear() is
\* called on the session as the loop left it and close() after it, also
\* when clear() raised: the session ends up without a handle, and once
\* main() has returned no descriptor is open.
C40_ClearThenCloseOnExit ==
    /\ [](pc = "exited" => \A n \in 1..MaxFd : ~fds[n].open)
    /\ [][(Finally /\ rpc # None) =>
            /\ sess'.socket = 0
            /\ ~sess'.connected
            /\ \A n \in 1..MaxFd : ~fds'[n].open
            /\ updRet' \in {"true", "false", "raise"}
            /\ updRet' = "true" =>
                 /\ sess.connected
                 /\ sess.socket # 0
                 /\ fds[sess.socket].alive
                 /\ sendRes' = "ok"
            /\ (updRet' = "false" /\ sess.connected) =>
                 (sess.socket # 0 /\ ~fds[sess.socket].alive /\ sendRes' = "fail")]_vars

C40_Witness ==
    /\ pc = "exited"
    /\ rpc # None
    /\ updRet = "raise"
    /\ hsTried
    /\ sess.socket = 0
    /\ \A n \in 1..MaxFd : ~fds[n].open
    /\ lock.at[1] = "killed"

====
